---- MODULE Spec2Model ----
(***************************************************************************)
(* A model of the issue-1 REST client (src/lib/utilites.js, the users      *)
(* client in src/unnamed/part_000 and src/lib/feed.js).                    *)
(*                                                                         *)
(* One call of an exported function is in progress at a time.  The call    *)
(* builds its arguments (attachAuthTokenToHeader, generateQueryParams,     *)
(* attachImageToRequest), hands a configuration to the HTTP transport      *)
(* (axios) and, when the transport settles or rejects, runs the rest of    *)
(* makeRequest and of the calling function.                                *)
(*                                                                         *)
(* JavaScript values are modelled as follows.  An optional value is a      *)
(* sequence of length at most one: <<>> is undefined, <<v>> is v.  A       *)
(* string that the code inspects character by character (an auth token)    *)
(* is a sequence of one-character strings; a string that the code only     *)
(* concatenates is a sequence of pieces.  An object is a function from its *)
(* keys to its values.                                                     *)
(***************************************************************************)
EXTENDS Naturals, Sequences, FiniteSets, TLC

\* Longest auth token drawn as an input.
MaxTokenLen == 2

\* Largest number of chunks a readable stream delivers.
MaxChunks == 2

--------------------------------------------------------------------------
(* JavaScript values *)

Undefined == <<>>

Some(v) == <<v>>

\* JavaScript truthiness of an optional number: undefined and 0 are falsy.
TruthyNum(x) == x # Undefined /\ x[1] # 0

\* JavaScript truthiness of an optional string: undefined and "" are falsy.
TruthyStr(x) == x # Undefined /\ x[1] # ""

\* JavaScript truthiness of an optional boolean.
TruthyBool(x) == x # Undefined /\ x[1]

EmptyObject == [k \in {} |-> Undefined]

\* obj.key = value
Put(obj, key, value) ==
    [k \in DOMAIN obj \cup {key} |-> IF k = key THEN value ELSE obj[k]]

\* {...a, ...b}
Spread(a, b) ==
    [k \in DOMAIN a \cup DOMAIN b |-> IF k \in DOMAIN b THEN b[k] ELSE a[k]]

--------------------------------------------------------------------------
(* attachAuthTokenToHeader *)

TokenChars == {"a", " ", "\t"}

\* The characters the regular expression /\s/ matches, among TokenChars.
IsWhitespace(c) == c \in {" ", "\t", "\n", "\r"}

RECURSIVE SeqsUpTo(_, _)
SeqsUpTo(S, n) ==
    IF n = 0 THEN {<<>>}
    ELSE LET shorter == SeqsUpTo(S, n - 1)
         IN  shorter \cup {Append(s, c) : s \in shorter, c \in S}

\* An auth token argument: undefined, or a string of at most MaxTokenLen
\* characters.
AuthTokens == {Undefined} \cup {Some(s) : s \in SeqsUpTo(TokenChars, MaxTokenLen)}

\* authToken.split(/\s/): the pieces between the whitespace characters.
RECURSIVE Split(_)
Split(s) ==
    IF s = <<>> THEN << <<>> >>
    ELSE LET rest == Split(Tail(s))
         IN  IF IsWhitespace(Head(s))
             THEN << <<>> >> \o rest
             ELSE << <<Head(s)>> \o Head(rest) >> \o Tail(rest)

Bearer == <<"B", "e", "a", "r", "e", "r", " ">>

\* What a synchronous helper gives back: a returned value or a thrown Error.
Returned(v) == [threw |-> FALSE, value |-> v, error |-> "none"]

Threw(e) == [threw |-> TRUE, value |-> Undefined, error |-> e]

\* A buggy variant: the whitespace check is left out.
attachAuthTokenToHeaderNoCheck(authToken, headers) ==
    IF authToken = Undefined \/ authToken[1] = <<>>
    THEN Returned(Undefined)
    ELSE Returned(Some(Put(headers, "Authorization", Bearer \o authToken[1])))

\* function attachAuthTokenToHeader(authToken, headers = {})
attachAuthTokenToHeader(authToken, headers) ==
    IF authToken = Undefined \/ authToken[1] = <<>>
    THEN Returned(Undefined)
    ELSE IF Len(Split(authToken[1])) > 1
    THEN Threw("Invalid authToken")
    ELSE Returned(Some(Put(headers, "Authorization", Bearer \o authToken[1])))

\* The header objects a caller passes as the second argument.
HeaderArgs ==
    { EmptyObject,
      Put(EmptyObject, "Accept", <<"j", "s", "o", "n">>),
      Put(EmptyObject, "Authorization", <<"o", "l", "d">>) }

--------------------------------------------------------------------------
(* generateQueryParams *)

OptNumbers == {Undefined, Some(0), Some(5)}

OptStrings(S) == {Undefined, Some("")} \cup {Some(s) : s \in S}

QueryArgs ==
    [ pattern       : OptStrings({"ali"}),
      limit         : OptNumbers,
      offset        : OptNumbers,
      sortingOrder  : {Undefined, Some("asc")},
      sortParameter : {Undefined, Some("username")},
      onlyIds       : {Undefined, Some(TRUE)} ]

\* A buggy variant: only the truthy member of the pair is carried.
generateQueryParamsNoPair(q) ==
    LET p1 == IF TruthyNum(q.limit) THEN Put(EmptyObject, "limit", q.limit)
              ELSE EmptyObject
        p2 == IF TruthyNum(q.offset) THEN Put(p1, "offset", q.offset) ELSE p1
    IN  p2

\* function generateQueryParams({pattern, limit, offset, sortingOrder,
\*                               sortParameter, onlyIds} = {})
generateQueryParams(q) ==
    LET p1 == IF TruthyNum(q.limit) \/ TruthyNum(q.offset)
              THEN Spread(Put(Put(EmptyObject, "limit", q.limit),
                              "offset", q.offset), EmptyObject)
              ELSE EmptyObject
        p2 == IF TruthyStr(q.sortParameter)
              THEN Put(p1, "sort",
                       IF TruthyStr(q.sortingOrder)
                       THEN <<q.sortParameter[1], "_", q.sortingOrder[1]>>
                       ELSE <<q.sortParameter[1]>>)
              ELSE p1
        p3 == IF TruthyStr(q.pattern) THEN Put(p2, "pattern", q.pattern[1])
              ELSE p2
        p4 == IF TruthyBool(q.onlyIds) THEN Put(p3, "onlyPKeys", TRUE) ELSE p3
    IN  p4

--------------------------------------------------------------------------
(* The values makeRequest handles *)

\* The data field of a response body.
DataValues == {Undefined, Some("alice"), Some("bob")}

\* response.data, the decoded body: the JSON value null, a string, or an
\* object with an optional status and an optional data field.
NullBody == [kind |-> "null", status |-> Undefined, data |-> Undefined]

TextBody == [kind |-> "text", status |-> Undefined, data |-> Undefined]

ObjectBodies ==
    [ kind   : {"object"},
      status : {Undefined, Some("success"), Some("fail"), Some("error")},
      data   : DataValues ]

Bodies == {NullBody, TextBody} \cup ObjectBodies

\* The responses the transport settles with (validateStatus is axios's
\* default: a 2xx status) and the ones it carries on a rejection.
SettledResponses == [status : {200, 201}, data : Bodies]

RejectedResponses == [status : {400, 500}, data : Bodies]

\* What `catch (error)` of makeRequest receives.  origin names the object:
\* the transport's rejection, the body thrown at line 217, or the TypeError
\* the runtime throws when response.data is null.
ErrorValue(origin, status, data, dom, name, response, request, code, toJSON) ==
    [ origin |-> origin, status |-> status, data |-> data,
      isDOMException |-> dom, name |-> name, response |-> response,
      request |-> request, code |-> code, hasToJSON |-> toJSON ]

\* The rejections of the transport: an axios error (with or without a
\* response, a request, a code), a DOMException, an object carrying
\* status "fail", an Error thrown by a request transformer (no toJSON).
Rejections ==
    { ErrorValue("rejection", st, IF st = Undefined THEN Undefined ELSE Some("alice"),
                 dn[1], dn[2], rs, rq, cd, tj) :
        st \in {Undefined, Some("fail")},
        dn \in {<<FALSE, "Error">>, <<TRUE, "SyntaxError">>, <<TRUE, "NetworkError">>},
        rs \in {Undefined} \cup {Some(r) : r \in RejectedResponses},
        rq \in BOOLEAN,
        cd \in {Undefined, Some("ENOTFOUND")},
        tj \in BOOLEAN }

\* A value makeRequest or a helper throws.  ident names the object thrown.
NoError ==
    [ ident |-> "none", status |-> Undefined, data |-> Undefined,
      errorCode |-> Undefined, message |-> "none", description |-> "none",
      response |-> Undefined, code |-> Undefined, domException |-> FALSE ]

\* new Error(message)
NewError(message) == [NoError EXCEPT !.ident = "new Error", !.message = message]

\* const CONNECTION_ERROR = Error("issue1.REST.client: connection could not
\* be made with issue1 REST")
CONNECTION_ERROR ==
    [NoError EXCEPT !.ident = "CONNECTION_ERROR",
                    !.message = "connection could not be made with issue1 REST"]

\* The TypeError of the runtime: a property read on null, or a call of a
\* toJSON that the caught value does not have.
RuntimeTypeError == [NoError EXCEPT !.ident = "TypeError", !.message = "TypeError"]

\* What an asynchronous function ends in.
NoBody == [kind |-> "none", status |-> Undefined, data |-> Undefined]

Resolve(body) == [kind |-> "resolve", body |-> body, error |-> NoError]

Raise(error) == [kind |-> "raise", body |-> NoBody, error |-> error]

Pending == [kind |-> "pending", body |-> NoBody, error |-> NoError]

--------------------------------------------------------------------------
(* makeRequest *)

\* `throw error` at line 225: the caught object itself, no field changed.
Rethrown(error) ==
    [NoError EXCEPT !.ident = error.origin, !.status = error.status,
                    !.data = error.data, !.code = error.code,
                    !.message = "error.message"]

\* Lines 249-251: the body of the rejection's response, with the HTTP status
\* set on it as errorCode.
JSendWithErrorCode(response) ==
    [NoError EXCEPT !.ident = "error.response.data",
                    !.status = response.data.status,
                    !.data = response.data.data,
                    !.errorCode = Some(response.status)]

\* Lines 283-316: error.toJSON() is read, and a new object is thrown with the
\* accumulated description and the extracted response.  A caught value with
\* no toJSON makes the call itself throw a TypeError.
CustomError(error, description, response) ==
    IF ~error.hasToJSON
    THEN RuntimeTypeError
    ELSE [NoError EXCEPT !.ident = "new object", !.message = "error.message",
                         !.description = description, !.response = response,
                         !.code = error.code]

\* !!error.response.data && !!error.response.data.status
HasJSend(response) ==
    response.data.kind = "object" /\ TruthyStr(response.data.status)

\* A buggy variant: a new Error is made for each connection failure.
NoResponseErrorFresh(error) ==
    IF error.code = Some("ENOTFOUND")
    THEN NewError("connection could not be made with issue1 REST")
    ELSE CustomError(error, "no response was received; ", Undefined)

\* Lines 265-275: the request was made and no response was received.  The
\* code ENOTFOUND throws the module's CONNECTION_ERROR object.
NoResponseError(error) ==
    IF error.code = Some("ENOTFOUND")
    THEN CONNECTION_ERROR
    ELSE CustomError(error, "no response was received; ", Undefined)

\* The catch block of makeRequest (lines 220-317): what it throws for the
\* caught value.
Classify(error) ==
    IF error.status = Some("fail")
    THEN Rethrown(error)
    ELSE IF error.isDOMException
    THEN IF error.name = "SyntaxError"
         THEN NewError("Invalid input: unable to parse input.")
         ELSE [NewError("unexpected exception: DOMException thrown by axios.")
                  EXCEPT !.domException = TRUE]
    ELSE IF error.response # Undefined
    THEN IF HasJSend(error.response[1])
         THEN JSendWithErrorCode(error.response[1])
         ELSE CustomError(error, "there was a response; ", error.response)
    ELSE IF error.request
    THEN NoResponseError(error)
    ELSE CustomError(error, "setting up request failed; ", Undefined)

\* The body thrown at line 217, as the catch block sees it.
ThrownBody(body) ==
    ErrorValue("response.data", body.status, body.data, FALSE, "none",
               Undefined, FALSE, Undefined, FALSE)

\* The TypeError of `response.data.status` on a null body, as the catch
\* block sees it.
ThrownTypeError ==
    ErrorValue("TypeError", Undefined, Undefined, FALSE, "TypeError",
               Undefined, FALSE, Undefined, FALSE)

\* A buggy variant of the try block: the data field is returned.
makeRequestSettledUnwrapped(response) ==
    IF response.data.kind = "null"
    THEN Raise(Classify(ThrownTypeError))
    ELSE IF response.data.status = Some("fail")
    THEN Raise(Classify(ThrownBody(response.data)))
    ELSE Resolve([kind |-> "data", status |-> Undefined, data |-> response.data.data])

\* makeRequest once the transport has settled with a response (lines
\* 212-219, and the catch block for what the try block throws).
makeRequestSettled(response) ==
    IF response.data.kind = "null"
    THEN Raise(Classify(ThrownTypeError))
    ELSE IF response.data.status = Some("fail")
    THEN Raise(Classify(ThrownBody(response.data)))
    ELSE Resolve(response.data)

\* makeRequest once the transport has rejected (lines 220-317).
makeRequestRejected(error) == Raise(Classify(error))

--------------------------------------------------------------------------
(* attachImageToRequest *)

\* The image payloads a caller passes: a Buffer, a Readable stream that
\* delivers `chunks` one-byte chunks and then ends, a FormData with or
\* without an entry under 'image', a Blob, or anything else.
Images ==
    { [kind |-> k, chunks |-> 0, hasImage |-> FALSE] : k \in {"Buffer", "Blob", "other"} }
    \cup { [kind |-> "Readable", chunks |-> n, hasImage |-> FALSE] : n \in 0..MaxChunks }
    \cup { [kind |-> "FormData", chunks |-> 0, hasImage |-> b] : b \in BOOLEAN }

NoImage == [kind |-> "none", chunks |-> 0, hasImage |-> FALSE]

\* attachImageToRequest(imageData, {headers = {}, otherData, imageName}),
\* once a Readable payload has been drained into `drained` bytes: the
\* {data, headers} fragment, or the Error thrown.
attachImageToRequest(node, imageData, headers, drained) ==
    LET hdrs == IF headers = Undefined THEN EmptyObject ELSE headers[1]
    IN  IF node
        THEN IF imageData.kind = "Buffer"
             THEN Returned([data |-> "formData.getBuffer()",
                            headers |-> Spread(hdrs, Put(EmptyObject, "content-type", <<"multipart">>))])
             ELSE IF imageData.kind = "Readable"
             THEN IF drained = 0
                  THEN Threw("Provided Readable stream has no data.")
                  ELSE Returned([data |-> "formData.getBuffer()",
                                 headers |-> Spread(hdrs, Put(EmptyObject, "content-type", <<"multipart">>))])
             ELSE Threw("Only instances of Buffer or ReadStream supported")
        ELSE IF imageData.kind = "FormData"
             THEN IF ~imageData.hasImage
                  THEN Threw("no item present under the key 'image'")
                  ELSE Returned([data |-> "imageData", headers |-> hdrs])
             ELSE IF imageData.kind = "Blob"
             THEN Returned([data |-> "formData", headers |-> hdrs])
             ELSE Threw("Only instances of FormData, Blob(File) supported")

--------------------------------------------------------------------------
(* The resource clients *)

UserOps ==
    { "getUser", "addUser", "deleteUser", "updateUser", "searchUsers", "getUsers",
      "addPostBookmark", "getUserBookmarks", "deleteBookmark",
      "addProfilePicture", "removeProfilePicture" }

FeedOps == {"getFeedPosts", "subscribeToChannel"}

ResourceOps == UserOps \cup FeedOps

\* The functions that end with `.data` on what makeRequest resolved to; the
\* others return what makeRequest resolved to.
ReturnsDataField(o) ==
    o \in { "getUser", "addUser", "updateUser", "searchUsers", "getUsers",
            "getUserBookmarks", "addProfilePicture", "getFeedPosts",
            "subscribeToChannel" }

\* The functions that pass attachAuthTokenToHeader(authToken) as headers.
UsesToken(o) == o \notin {"addUser", "searchUsers", "getUsers"}

Method(o) ==
    CASE o \in {"getUser", "searchUsers", "getUsers", "getUserBookmarks", "getFeedPosts"} -> "get"
      [] o \in {"addUser", "subscribeToChannel"} -> "post"
      [] o \in {"updateUser", "addPostBookmark", "addProfilePicture"} -> "put"
      [] o \in {"deleteUser", "deleteBookmark", "removeProfilePicture"} -> "delete"

URL(o) ==
    CASE o \in {"getUser", "deleteUser", "updateUser"} -> <<"baseURL", "/users/", "username">>
      [] o \in {"addUser", "searchUsers", "getUsers"} -> <<"baseURL", "/users">>
      [] o \in {"addPostBookmark", "deleteBookmark"} ->
             <<"baseURL", "/users/", "username", "/bookmarks/", "postID">>
      [] o = "getUserBookmarks" -> <<"baseURL", "/users/", "username", "/bookmarks">>
      [] o \in {"addProfilePicture", "removeProfilePicture"} ->
             <<"baseURL", "/users/", "username", "/picture">>
      [] o = "getFeedPosts" -> <<"baseURL", "/users/", "username", "/feed/posts">>
      [] o = "subscribeToChannel" -> <<"baseURL", "/users/", "username", "/feed/channels">>

\* getFeedPosts, lines 24-32 of feed.js: onlyIds defaults to false, and the
\* four keys are set together when any of the inputs is truthy.
\* The query's sortParameter field stands for the `sorting` argument.
FeedParams(q) ==
    LET onlyIds == IF q.onlyIds = Undefined THEN Some(FALSE) ELSE q.onlyIds
    IN  IF TruthyBool(onlyIds) \/ TruthyNum(q.limit) \/ TruthyNum(q.offset)
           \/ TruthyStr(q.sortParameter)
        THEN [onlyPKeys |-> onlyIds, limit |-> q.limit, offset |-> q.offset,
              sort |-> q.sortParameter]
        ELSE EmptyObject

\* searchUsers(baseURL, pattern = "", {limit, offset, sortingOrder,
\* sortParameter} = {}); getUsers is searchUsers with the pattern "".
SearchParams(o, q) ==
    generateQueryParams(
        [q EXCEPT !.pattern = IF o = "getUsers" \/ q.pattern = Undefined
                              THEN Some("") ELSE q.pattern,
                  !.onlyIds = Undefined])

Params(o, q) ==
    IF o \in {"searchUsers", "getUsers"} THEN Some(SearchParams(o, q))
    ELSE IF o = "getFeedPosts" THEN Some(FeedParams(q))
    ELSE Undefined

Data(o) ==
    IF o \in {"addUser", "updateUser"} THEN "user"
    ELSE IF o = "subscribeToChannel" THEN "{channelname}"
    ELSE "undefined"

NoQuery ==
    [ pattern |-> Undefined, limit |-> Undefined, offset |-> Undefined,
      sortingOrder |-> Undefined, sortParameter |-> Undefined, onlyIds |-> Undefined ]

NoArgs ==
    [ username |-> Undefined, postID |-> Undefined, authToken |-> Undefined,
      headers |-> EmptyObject, query |-> NoQuery, image |-> NoImage ]

\* The functions whose URL holds the username, and the post's identifier.
UsesUsername(o) == o \notin {"addUser", "searchUsers", "getUsers"}

UsesPostID(o) == o \in {"addPostBookmark", "deleteBookmark"}

\* The arguments a caller passes to a resource function.
ArgsFor(o) ==
    { [username |-> u, postID |-> n, authToken |-> t, headers |-> EmptyObject,
       query |-> q, image |-> i] :
        u \in IF UsesUsername(o) THEN {Some(<<"alice">>)} ELSE {Undefined},
        n \in IF UsesPostID(o) THEN {Some(<<"7">>)} ELSE {Undefined},
        t \in IF UsesToken(o) THEN AuthTokens ELSE {Undefined},
        q \in IF o \in {"searchUsers", "getUsers", "getFeedPosts"}
              THEN { x \in QueryArgs :
                        /\ o # "searchUsers" => x.pattern = Undefined
                        /\ o = "getFeedPosts" => x.sortingOrder = Undefined
                        /\ o # "getFeedPosts" => x.onlyIds = Undefined }
              ELSE {NoQuery},
        i \in IF o = "addProfilePicture" THEN Images ELSE {NoImage} }

\* `${x}` in a template string: the text of x, "undefined" when x is
\* undefined.
Interpolated(x) == IF x = Undefined THEN <<"undefined">> ELSE x[1]

\* The URL a resource function builds from its arguments: URL(o) with the
\* username and the post's identifier put in.
URLFor(o, a) ==
    [ i \in DOMAIN URL(o) |->
        IF URL(o)[i] = "username" THEN Interpolated(a.username)
        ELSE IF URL(o)[i] = "postID" THEN Interpolated(a.postID)
        ELSE <<URL(o)[i]>> ]

\* The configuration makeRequest hands to axios (lines 195-207): the method,
\* a copy of the headers, the URL, the body and the query parameters.
Config(url, method, headers, data, params) ==
    [ url |-> url, method |-> method,
      headers |-> IF headers = Undefined THEN EmptyObject ELSE Spread(EmptyObject, headers[1]),
      data |-> data, params |-> params ]

NoRequest == Config(<<>>, "none", Undefined, "undefined", Undefined)

\* What a resource function does with the outcome of makeRequest: `.data`
\* of the resolved body, or the resolved body itself; a raised value passes
\* through.  A string body has no data property.
Finish(o, outcome) ==
    IF outcome.kind = "resolve" /\ ReturnsDataField(o)
    THEN Resolve([kind |-> "data", status |-> Undefined, data |-> outcome.body.data])
    ELSE outcome

--------------------------------------------------------------------------
(* The state *)

VARIABLES
    isNode,          \* browser-or-node's isNode, fixed for the run
    pc,              \* "idle", "draining", "awaiting" or "done"
    op,              \* the exported function being called, "none" when idle
    args,            \* the arguments of the call, until its request is built
    buffer,          \* attachImageToRequest: bytes drained from the stream
    chunksLeft,      \* chunks the stream has yet to deliver
    streamFailed,    \* the stream emitted 'error' before 'end'
    request,         \* the configuration in flight at the transport
    transportCalls,  \* calls of axios(URL, config) made by the current call
    transport,       \* what the transport delivered: a response or a rejection
    outcome,         \* what makeRequest ended in
    result           \* what the exported function ended in

vars ==
    << isNode, pc, op, args, buffer, chunksLeft, streamFailed, request,
       transportCalls, transport, outcome, result >>

NoTransport == [kind |-> "none"]

Init ==
    /\ isNode \in BOOLEAN
    /\ pc = "idle"
    /\ op = "none"
    /\ args = NoArgs
    /\ buffer = 0
    /\ chunksLeft = 0
    /\ streamFailed = FALSE
    /\ request = NoRequest
    /\ transportCalls = 0
    /\ transport = NoTransport
    /\ outcome = Pending
    /\ result = Pending

\* The call ends before makeRequest is entered: a helper threw.
EndLocally(o, a, error) ==
    /\ pc' = "done"
    /\ op' = o
    /\ args' = a
    /\ result' = Raise(NewError(error))
    /\ UNCHANGED <<isNode, buffer, chunksLeft, streamFailed, request, transportCalls, transport, outcome>>

\* makeRequest(URL, config) up to its await: axios is called once with the
\* configuration.
Dispatch(o, config) ==
    /\ pc' = "awaiting"
    /\ op' = o
    /\ args' = NoArgs
    /\ request' = config
    /\ transportCalls' = transportCalls + 1
    /\ UNCHANGED <<isNode, buffer, chunksLeft, streamFailed, transport, outcome, result>>

--------------------------------------------------------------------------
(* Calls of the helpers *)

\* attachAuthTokenToHeader(authToken, headers) called on its own.
CallAttachAuthTokenToHeader(authToken, headers) ==
    /\ pc = "idle"
    /\ pc' = "done"
    /\ op' = "attachAuthTokenToHeader"
    /\ args' = [NoArgs EXCEPT !.authToken = authToken, !.headers = headers]
    /\ LET r == attachAuthTokenToHeader(authToken, headers)
       IN  result' = IF r.threw THEN Raise(NewError(r.error))
                     ELSE Resolve([kind |-> "headers", status |-> Undefined, data |-> r.value])
    /\ UNCHANGED <<isNode, buffer, chunksLeft, streamFailed, request, transportCalls, transport, outcome>>

\* generateQueryParams(q) called on its own.
CallGenerateQueryParams(q) ==
    /\ pc = "idle"
    /\ pc' = "done"
    /\ op' = "generateQueryParams"
    /\ args' = [NoArgs EXCEPT !.query = q]
    /\ result' = Resolve([kind |-> "params", status |-> Undefined,
                          data |-> Some(generateQueryParams(q))])
    /\ UNCHANGED <<isNode, buffer, chunksLeft, streamFailed, request, transportCalls, transport, outcome>>

\* makeRequest(URL, {}) called on its own.
CallMakeRequest ==
    /\ pc = "idle"
    /\ Dispatch("makeRequest", Config(<< <<"URL">> >>, "get", Undefined, "undefined", Undefined))

--------------------------------------------------------------------------
(* Calls of the resource functions *)

\* A resource function other than addProfilePicture: the arguments of
\* makeRequest are evaluated (attachAuthTokenToHeader may throw), then
\* makeRequest is entered.
RunResource(o, a) ==
    LET h == IF UsesToken(o)
             THEN attachAuthTokenToHeader(a.authToken, EmptyObject)
             ELSE Returned(Undefined)
    IN  IF h.threw
        THEN EndLocally(o, a, h.error)
        ELSE Dispatch(o, Config(URLFor(o, a), Method(o), h.value, Data(o), Params(o, a.query)))

\* A caller calls the exported function.
CallResource(o, a) ==
    /\ pc = "idle"
    /\ o \in ResourceOps \ {"addProfilePicture"}
    /\ RunResource(o, a)

\* addProfilePicture: attachAuthTokenToHeader, then attachImageToRequest, then
\* makeRequest.  A Readable payload in node suspends the call until the
\* stream has ended.
RunAddProfilePicture(a) ==
    LET o == "addProfilePicture"
        h == attachAuthTokenToHeader(a.authToken, EmptyObject)
        f == attachImageToRequest(isNode, a.image, h.value, 0)
    IN  IF h.threw
        THEN EndLocally(o, a, h.error)
        ELSE IF isNode /\ a.image.kind = "Readable"
        THEN /\ pc' = "draining"
             /\ op' = o
             /\ args' = a
             /\ buffer' = 0
             /\ chunksLeft' = a.image.chunks
             /\ UNCHANGED <<isNode, streamFailed, request, transportCalls, transport, outcome, result>>
        ELSE IF f.threw
        THEN EndLocally(o, a, f.error)
        ELSE Dispatch(o, Config(URLFor(o, a), Method(o), Some(f.value.headers),
                                f.value.data, Undefined))

\* A caller calls the exported addProfilePicture.
CallAddProfilePicture(a) ==
    /\ pc = "idle"
    /\ RunAddProfilePicture(a)

\* imageData.on('data', chunk => ...): the chunk is appended to the buffer.
StreamData ==
    /\ pc = "draining"
    /\ ~streamFailed
    /\ chunksLeft > 0
    /\ buffer' = buffer + 1
    /\ chunksLeft' = chunksLeft - 1
    /\ UNCHANGED <<isNode, streamFailed, pc, op, args, request, transportCalls, transport, outcome, result>>

\* A buggy variant: the request is sent before the drained buffer is looked at.
StreamEndDispatchFirst ==
    /\ pc = "draining"
    /\ ~streamFailed
    /\ chunksLeft = 0
    /\ LET h == attachAuthTokenToHeader(args.authToken, EmptyObject)
           f == attachImageToRequest(isNode, args.image, h.value, buffer)
       IN  /\ transportCalls' = transportCalls + 1
           /\ IF f.threw
              THEN /\ pc' = "done"
                   /\ result' = Raise(NewError(f.error))
                   /\ UNCHANGED <<op, args, request>>
              ELSE /\ pc' = "awaiting"
                   /\ args' = NoArgs
                   /\ request' = Config(URLFor(op, args), Method(op), Some(f.value.headers),
                                        f.value.data, Undefined)
                   /\ UNCHANGED <<op, result>>
    /\ UNCHANGED <<isNode, buffer, chunksLeft, streamFailed, transport, outcome>>

\* imageData.on('end', () => resolve()): attachImageToRequest resumes, checks
\* the buffer and returns the fragment; addProfilePicture enters makeRequest.
StreamEnd ==
    /\ pc = "draining"
    /\ ~streamFailed
    /\ chunksLeft = 0
    /\ LET h == attachAuthTokenToHeader(args.authToken, EmptyObject)
           f == attachImageToRequest(isNode, args.image, h.value, buffer)
       IN  IF f.threw
           THEN EndLocally(op, args, f.error)
           ELSE Dispatch(op, Config(URLFor(op, args), Method(op), Some(f.value.headers),
                                    f.value.data, Undefined))

\* The stream fails before it has ended: it emits 'error' and neither 'data'
\* nor 'end' after it.  attachImageToRequest registers listeners for 'data'
\* and 'end' only (lines 111-116), so nothing settles the promise it awaits:
\* the call stays suspended (and the runtime reports the unhandled 'error'
\* event outside the call).
StreamError ==
    /\ pc = "draining"
    /\ ~streamFailed
    /\ streamFailed' = TRUE
    /\ UNCHANGED <<isNode, pc, op, args, buffer, chunksLeft, request, transportCalls,
                   transport, outcome, result>>

--------------------------------------------------------------------------
(* The methods of NewUserServiceClient(baseURL) and NewFeedServiceClient(baseURL) *)

\* The arguments a method of the client object hands to the exported
\* function after client.baseURL, given the arguments `a` of the caller in
\* the exported function's order.  The methods getUserBookmarks and
\* deleteBookmark declare baseURL as their own first parameter, so the
\* caller's arguments land one parameter to the left and the last is
\* undefined; the method getFeedPosts leaves onlyIds out of the object it
\* passes on; the method searchUsers has the default pattern "".
Forwarded(o, a) ==
    CASE o = "getUserBookmarks" ->
             [a EXCEPT !.username = a.authToken, !.authToken = Undefined]
      [] o = "deleteBookmark" ->
             [a EXCEPT !.username = a.postID, !.postID = a.authToken,
                       !.authToken = Undefined]
      [] o = "getFeedPosts" -> [a EXCEPT !.query.onlyIds = Undefined]
      [] o = "searchUsers" ->
             [a EXCEPT !.query.pattern = IF a.query.pattern = Undefined
                                         THEN Some("") ELSE a.query.pattern]
      [] OTHER -> a

\* A caller calls the method o of a client object with the arguments a: the
\* method is entered.
CallMethod(o, a) ==
    /\ pc = "idle"
    /\ pc' = "forwarding"
    /\ op' = o
    /\ args' = a
    /\ UNCHANGED <<isNode, buffer, chunksLeft, streamFailed, request, transportCalls, transport,
                   outcome, result>>

\* The body of the method: it returns the call of the exported function of
\* the same name with client.baseURL and the arguments it passes on.
Forward ==
    /\ pc = "forwarding"
    /\ IF op = "addProfilePicture"
       THEN RunAddProfilePicture(Forwarded(op, args))
       ELSE RunResource(op, Forwarded(op, args))

--------------------------------------------------------------------------
(* The transport settles *)

\* What the awaiting call ends in, given what makeRequest ended in.
Complete(delivered, o) ==
    /\ pc' = "done"
    /\ transport' = delivered
    /\ outcome' = o
    /\ result' = IF op = "makeRequest" THEN o ELSE Finish(op, o)
    /\ request' = NoRequest
    /\ UNCHANGED <<isNode, op, args, buffer, chunksLeft, streamFailed, transportCalls>>

\* axios resolves with a response.
TransportSettle(response) ==
    /\ pc = "awaiting"
    /\ Complete([kind |-> "response", response |-> response],
                makeRequestSettled(response))

\* A buggy variant: a rejection is answered by calling the transport again.
TransportRejectRetry(error) ==
    /\ pc = "awaiting"
    /\ IF transportCalls < 2
       THEN /\ transportCalls' = transportCalls + 1
            /\ UNCHANGED <<isNode, pc, op, args, buffer, chunksLeft, streamFailed, request,
                           transport, outcome, result>>
       ELSE Complete([kind |-> "rejection", error |-> error], makeRequestRejected(error))

\* axios rejects.
TransportReject(error) ==
    /\ pc = "awaiting"
    /\ Complete([kind |-> "rejection", error |-> error], makeRequestRejected(error))

\* The caller has the result; the next call may start.
Return ==
    /\ pc = "done"
    /\ pc' = "idle"
    /\ op' = "none"
    /\ args' = NoArgs
    /\ buffer' = 0
    /\ chunksLeft' = 0
    /\ streamFailed' = FALSE
    /\ request' = NoRequest
    /\ transportCalls' = 0
    /\ transport' = NoTransport
    /\ outcome' = Pending
    /\ result' = Pending
    /\ UNCHANGED isNode

Next ==
    \/ \E t \in AuthTokens, h \in HeaderArgs : CallAttachAuthTokenToHeader(t, h)
    \/ \E q \in QueryArgs : CallGenerateQueryParams(q)
    \/ CallMakeRequest
    \/ \E o \in ResourceOps : \E a \in ArgsFor(o) : CallResource(o, a)
    \/ \E a \in ArgsFor("addProfilePicture") : CallAddProfilePicture(a)
    \/ \E o \in ResourceOps : \E a \in ArgsFor(o) : CallMethod(o, a)
    \/ Forward
    \/ StreamData
    \/ StreamEnd
    \/ StreamError
    \/ \E r \in SettledResponses : TransportSettle(r)
    \/ \E e \in Rejections : TransportReject(e)
    \/ Return

Spec == Init /\ [][Next]_vars

--------------------------------------------------------------------------
(* Vocabulary of the properties *)

\* makeRequest has run to its end in the current call.
MakeRequestEnded == pc = "done" /\ transport.kind # "none"

Settled == MakeRequestEnded /\ transport.kind = "response"

Rejected == MakeRequestEnded /\ transport.kind = "rejection"

\* The variants of a classified error, read off the value raised.
IsApplicationFailure(e) ==
    e.ident \in {"rejection", "response.data", "error.response.data"} /\ TruthyStr(e.status)

IsServerError(e) == e.ident = "new object" /\ e.response # Undefined

IsNoResponse(e) ==
    \/ e = CONNECTION_ERROR
    \/ e.ident = "new object" /\ e.response = Undefined
                              /\ e.description = "no response was received; "

IsSetupFailure(e) ==
    e.ident = "new object" /\ e.response = Undefined
                           /\ e.description = "setting up request failed; "

IsParseFailure(e) ==
    e.ident = "new Error"
    /\ e.message \in { "Invalid input: unable to parse input.",
                       "unexpected exception: DOMException thrown by axios." }

IsClassified(e) ==
    \/ IsApplicationFailure(e)
    \/ IsServerError(e)
    \/ IsNoResponse(e)
    \/ IsSetupFailure(e)
    \/ IsParseFailure(e)

\* The errors of the local validations.
LocalMessages ==
    { "Invalid authToken",
      "Provided Readable stream has no data.",
      "Only instances of Buffer or ReadStream supported",
      "no item present under the key 'image'",
      "Only instances of FormData, Blob(File) supported" }

IsLocalError(r) ==
    r.kind = "raise" /\ r.error.ident = "new Error" /\ r.error.message \in LocalMessages

HasWhitespace(s) == \E i \in 1..Len(s) : IsWhitespace(s[i])

\* The value D itself, as opposed to an envelope holding it.
DataItself(d) == [kind |-> "data", status |-> Undefined, data |-> d]

IsSuccessEnvelope(body) == body.kind = "object" /\ body.status = Some("success")

--------------------------------------------------------------------------
(* C1 *)

\* C1 (as claimed): whatever the transport delivers, makeRequest resolves or
\* raises one of the classified variants; no native error of the runtime or
\* the transport reaches the caller.
C1_OutcomeIsClassified ==
    MakeRequestEnded =>
        \/ outcome.kind = "resolve"
        \/ outcome.kind = "raise" /\ IsClassified(outcome.error)

--------------------------------------------------------------------------
(* C2 *)

\* C2 (as claimed): a settled response whose body is {status: "success",
\* data: D} makes makeRequest resolve to D itself.
C2_ResolvesToDataField ==
    (Settled /\ IsSuccessEnvelope(transport.response.data)) =>
        outcome = Resolve(DataItself(transport.response.data.data))

\* C2 (amended): a settled response whose body is {status: "success",
\* data: D} makes makeRequest resolve to the body itself, the whole envelope,
\* of which D is the data field.
C2_ResolvesToEnvelope ==
    (Settled /\ IsSuccessEnvelope(transport.response.data)) =>
        /\ outcome = Resolve(transport.response.data)
        /\ outcome.body.kind = "object"
        /\ outcome.body.status = Some("success")

C2_Witness ==
    /\ Settled
    /\ op = "makeRequest"
    /\ transport.response.data = [kind |-> "object", status |-> Some("success"),
                                  data |-> Some("alice")]
    /\ outcome.kind = "resolve"

--------------------------------------------------------------------------
(* C3 *)

\* The response the raised envelope arrived in.
ArrivedIn ==
    IF transport.kind = "response" THEN Some(transport.response)
    ELSE transport.error.response

\* C3 (as claimed): an ApplicationFailure raised for a response, settled or
\* carried by a rejection, has errorCode equal to the HTTP status of that
\* response and data equal to the data of its body.
C3_FailureCarriesStatusCode ==
    (MakeRequestEnded /\ outcome.kind = "raise" /\ IsApplicationFailure(outcome.error)
        /\ ArrivedIn # Undefined /\ outcome.error.ident # "rejection") =>
        /\ outcome.error.errorCode = Some(ArrivedIn[1].status)
        /\ outcome.error.data = ArrivedIn[1].data.data

--------------------------------------------------------------------------
(* C4 *)

\* C4 (as claimed): a resource function that resolves on a success envelope
\* returns the envelope's data field, never the envelope.
C4_ResolvesToDataField ==
    (pc = "done" /\ op \in ResourceOps /\ result.kind = "resolve"
        /\ IsSuccessEnvelope(transport.response.data)) =>
        result = Resolve(DataItself(transport.response.data.data))

--------------------------------------------------------------------------
(* C5 *)

\* C5: a call that ends in a local validation error has not called the
\* transport.
C5_LocalErrorBeforeTransport ==
    (pc = "done" /\ IsLocalError(result)) =>
        /\ transportCalls = 0
        /\ transport.kind = "none"

C5_Witness ==
    /\ pc = "done"
    /\ op = "addProfilePicture"
    /\ result = Raise(NewError("Provided Readable stream has no data."))
    /\ transportCalls = 0

--------------------------------------------------------------------------
(* C6 *)

\* C6: while makeRequest awaits the transport and once it has ended, the
\* transport has been called exactly once in the call, and makeRequest has
\* ended in one outcome; a call that never entered makeRequest made no call.
C6_TransportCalledOnce ==
    /\ pc = "awaiting" => (transportCalls = 1 /\ outcome = Pending)
    /\ MakeRequestEnded => (transportCalls = 1 /\ outcome.kind \in {"resolve", "raise"})
    /\ (pc \in {"idle", "draining"} \/ (pc = "done" /\ transport.kind = "none")) =>
           (transportCalls = 0 /\ outcome = Pending)

C6_Witness ==
    /\ Rejected
    /\ outcome.kind = "raise"
    /\ transportCalls = 1

--------------------------------------------------------------------------
(* C7 *)

IsDNSFailure(error) == error.code = Some("ENOTFOUND")

\* C7 (as claimed): every rejection whose code is a DNS failure makes
\* makeRequest raise the singleton CONNECTION_ERROR.
C7_EveryDNSFailureRaisesSingleton ==
    (Rejected /\ IsDNSFailure(transport.error)) => outcome = Raise(CONNECTION_ERROR)

\* C7 (amended): a rejection whose code is a DNS failure, that carries a
\* request and no response, is no DOMException and has no status "fail",
\* makes makeRequest raise the singleton CONNECTION_ERROR, the same object
\* on every call.
C7_DNSFailureWithoutResponseRaisesSingleton ==
    (Rejected /\ IsDNSFailure(transport.error)
        /\ transport.error.request
        /\ transport.error.response = Undefined
        /\ ~transport.error.isDOMException
        /\ transport.error.status # Some("fail")) =>
        /\ outcome = Raise(CONNECTION_ERROR)
        /\ outcome.error.ident = "CONNECTION_ERROR"

C7_Witness ==
    /\ Rejected
    /\ IsDNSFailure(transport.error)
    /\ transport.error.request
    /\ transport.error.response = Undefined
    /\ ~transport.error.hasToJSON
    /\ outcome = Raise(CONNECTION_ERROR)

--------------------------------------------------------------------------
(* C8 *)

AttachEnded == pc = "done" /\ op = "attachAuthTokenToHeader"

\* The header mapping expected for a token: the given headers with
\* Authorization set to "Bearer " followed by the token.
BearerHeaders(token, headers) ==
    [kind |-> "headers", status |-> Undefined,
     data |-> Some(Put(headers, "Authorization", Bearer \o token))]

\* C8 (as claimed): every token string with a whitespace character fails
\* with the invalid-token error, and every token string without one yields
\* headers whose Authorization is "Bearer " followed by the token.
C8_PartitionsAllTokens ==
    (AttachEnded /\ args.authToken # Undefined) =>
        IF HasWhitespace(args.authToken[1])
        THEN result = Raise(NewError("Invalid authToken"))
        ELSE /\ result.kind = "resolve"
             /\ result.body.data # Undefined
             /\ result.body.data[1]["Authorization"] = Bearer \o args.authToken[1]

\* C8 (amended): every token string with a whitespace character fails with
\* the invalid-token error; every non-empty token string without one yields
\* the given headers with Authorization set to "Bearer " followed by the
\* token; the empty token string yields undefined.
C8_PartitionsNonEmptyTokens ==
    (AttachEnded /\ args.authToken # Undefined) =>
        IF HasWhitespace(args.authToken[1])
        THEN result = Raise(NewError("Invalid authToken"))
        ELSE IF args.authToken[1] = <<>>
        THEN result = Resolve([kind |-> "headers", status |-> Undefined, data |-> Undefined])
        ELSE /\ result = Resolve(BearerHeaders(args.authToken[1], args.headers))
             /\ result.body.data[1]["Authorization"] = Bearer \o args.authToken[1]

C8_Witness ==
    /\ AttachEnded
    /\ args.authToken = Some(<<"a", "\t">>)
    /\ result = Raise(NewError("Invalid authToken"))

--------------------------------------------------------------------------
(* C9 *)

QueryEnded == pc = "done" /\ op = "generateQueryParams"

\* C9 (as claimed): the result has the key limit exactly when it has the key
\* offset, and it has both exactly when limit or offset is present in the
\* input.
C9_PairWhenEitherPresent ==
    QueryEnded =>
        LET params == result.body.data[1]
        IN  /\ ("limit" \in DOMAIN params) <=> ("offset" \in DOMAIN params)
            /\ ("limit" \in DOMAIN params) <=>
                   (args.query.limit # Undefined \/ args.query.offset # Undefined)

\* C9 (amended): the result has the key limit exactly when it has the key
\* offset, and it has both exactly when limit or offset is a non-zero number
\* in the input; each is carried with the input's value, undefined when the
\* input has none.
C9_PairWhenEitherTruthy ==
    QueryEnded =>
        LET params == result.body.data[1]
        IN  /\ ("limit" \in DOMAIN params) <=> ("offset" \in DOMAIN params)
            /\ ("limit" \in DOMAIN params) <=>
                   \/ (args.query.limit # Undefined /\ args.query.limit[1] # 0)
                   \/ (args.query.offset # Undefined /\ args.query.offset[1] # 0)
            /\ "limit" \in DOMAIN params =>
                   /\ params["limit"] = args.query.limit
                   /\ params["offset"] = args.query.offset

C9_Witness ==
    /\ QueryEnded
    /\ args.query.limit = Some(5)
    /\ args.query.offset = Undefined
    /\ "offset" \in DOMAIN result.body.data[1]
    /\ result.body.data[1]["offset"] = Undefined

--------------------------------------------------------------------------
(* C10 *)

\* C10 (as claimed): a rejection is classified by the first case it matches:
\* status "fail" is raised again unchanged; a DOMException becomes a parse
\* failure; a response decides (its envelope with the HTTP status as
\* errorCode, or a server error); a request without a response is a
\* no-response error; neither is a set-up failure.
C10_ClassifiedInPriorityOrder ==
    Rejected =>
        LET error == transport.error
            raised == outcome.error
        IN  /\ outcome.kind = "raise"
            /\ IF error.status = Some("fail")
               THEN raised = Rethrown(error) /\ raised.errorCode = Undefined
               ELSE IF error.isDOMException
               THEN IsParseFailure(raised)
               ELSE IF error.response # Undefined
               THEN IF HasJSend(error.response[1])
                    THEN /\ IsApplicationFailure(raised)
                         /\ raised.errorCode = Some(error.response[1].status)
                    ELSE IsServerError(raised) /\ raised.response = error.response
               ELSE IF error.request
               THEN IsNoResponse(raised)
               ELSE IsSetupFailure(raised)

--------------------------------------------------------------------------
(* C11 *)

\* C11 (as claimed): the step a method of a client object takes with the
\* caller's arguments is the step the exported function of the same name
\* takes with baseURL and the same arguments: the same request handed to
\* the transport, the same local error, or the same wait for the stream.
C11_MethodSameAsExportedFunction ==
    [][ pc = "forwarding" =>
            IF op = "addProfilePicture"
            THEN RunAddProfilePicture(args)
            ELSE RunResource(op, args) ]_vars

--------------------------------------------------------------------------
(* C12 *)

\* C12 (as claimed): in node, a call of attachImageToRequest suspended on a
\* readable stream never stays suspended: whatever the stream has done
\* (delivered chunks, delivered none, failed), an event that resumes the
\* call is still to come, and the call resumes only on the stream's end.
C12_SuspendedCallResumes ==
    /\ (pc = "draining") => ENABLED (StreamData \/ StreamEnd)
    /\ (pc \in {"awaiting", "done"} /\ op = "addProfilePicture" /\ isNode)
           => (chunksLeft = 0 /\ ~streamFailed)

====
